---- MODULE Spec2Model ----
(***************************************************************************)
(* Model of src/option-parser.js: the OptionParser registry (addOption,    *)
(* findOption), the Option entity (constructor, getCode, getValue, getId)  *)
(* and OptionParser.prototype.parse.                                       *)
(*                                                                         *)
(* JavaScript values.  A string is the sequence of its characters, each a  *)
(* one-character TLA+ string ("" is <<>>).  null, undefined, true and      *)
(* false are one-element sequences whose element is no character, so that  *)
(* every value is a sequence and === is TLA+ equality.                     *)
(***************************************************************************)
EXTENDS Integers, Sequences, FiniteSets, TLC

Null      == <<"#null">>
Undefined == <<"#undefined">>
True      == <<"#true">>
False     == <<"#false">>

\* JavaScript truthiness of the values above: null, undefined, false and the
\* empty string are falsy, every other string and true are truthy.
Truthy(v) == v \notin {Null, Undefined, False, <<>>}

\* a || b
Or(a, b) == IF Truthy(a) THEN a ELSE b

\* String(v) as used by the + operator on a string and v
ToStr(v) ==
    IF v = Null THEN <<"n", "u", "l", "l">>
    ELSE IF v = Undefined THEN <<"u", "n", "d", "e", "f", "i", "n", "e", "d">>
    ELSE IF v = True THEN <<"t", "r", "u", "e">>
    ELSE IF v = False THEN <<"f", "a", "l", "s", "e">>
    ELSE v

----------------------------------------------------------------------------
\* String primitives

LowerLetters == {"a", "b", "d", "f", "h", "o", "p", "r", "v", "w", "x", "z"}

ToUpperChar(c) ==
    CASE c = "a" -> "A" [] c = "b" -> "B" [] c = "d" -> "D" [] c = "f" -> "F"
      [] c = "h" -> "H" [] c = "o" -> "O" [] c = "p" -> "P" [] c = "r" -> "R"
      [] c = "v" -> "V" [] c = "w" -> "W" [] c = "x" -> "X" [] c = "z" -> "Z"
      [] OTHER -> c

ToLowerChar(c) ==
    CASE c = "A" -> "a" [] c = "B" -> "b" [] c = "D" -> "d" [] c = "F" -> "f"
      [] c = "H" -> "h" [] c = "O" -> "o" [] c = "P" -> "p" [] c = "R" -> "r"
      [] c = "V" -> "v" [] c = "W" -> "w" [] c = "X" -> "x" [] c = "Z" -> "z"
      [] OTHER -> c

\* s.toLowerCase()
ToLowerCase(s) == [k \in 1..Len(s) |-> ToLowerChar(s[k])]

\* s.startsWith(str)
StartsWith(s, str) == Len(s) >= Len(str) /\ SubSeq(s, 1, Len(str)) = str

\* s.slice(from)
Slice(s, from) == SubSeq(s, from + 1, Len(s))

\* s.slice(0, to)
SliceTo(s, to) == SubSeq(s, 1, to)

\* s.indexOf(c) for a one-character c: 0-based, -1 when absent
IndexOf(s, c) ==
    IF \E k \in 1..Len(s) : s[k] = c
    THEN (CHOOSE k \in 1..Len(s) : s[k] = c /\ \A m \in 1..(k - 1) : s[m] # c) - 1
    ELSE -1

\* s.split("=")[1]: the piece between the first "=" and the next one (or the
\* end); undefined when s holds no "="
SplitEq1(s) ==
    LET first == IndexOf(s, "=")
        rest  == Slice(s, first + 1)
        nxt   == IndexOf(rest, "=")
    IN  IF first < 0 THEN Undefined
        ELSE IF nxt < 0 THEN rest
        ELSE SliceTo(rest, nxt)

\* s.toCamelCase(): s.replace(/-([a-z])/g, g => g[1].toUpperCase())
RECURSIVE ToCamelCase(_)
ToCamelCase(s) ==
    IF s = <<>> THEN <<>>
    ELSE IF Len(s) >= 2 /\ s[1] = "-" /\ s[2] \in LowerLetters
         THEN <<ToUpperChar(s[2])>> \o ToCamelCase(Slice(s, 2))
         ELSE <<s[1]>> \o ToCamelCase(Slice(s, 1))

----------------------------------------------------------------------------
\* Option

\* var OptionType = { normal, help, separator, note, footer }: the stored
\* formatter functions, compared by identity in parse
OptionType_normal == <<"#normal">>
OptionType_help   == <<"#help">>
OptionType_note   == <<"#note">>

\* function Option(opt): the fields parse and the registry read.  The specs
\* registered give no value.current, so (opt.value && opt.value.current) ||
\* null is null.
Option(opt) ==
    LET longCode  == Or(opt.longCode, Null)
        shortCode == Or(opt.shortCode, Null)
    IN  [ longCode  |-> longCode,
          shortCode |-> shortCode,
          type      |-> Or(opt.type, OptionType_normal),
          value     |-> [ current  |-> Null,
                          default  |-> Or(opt.valueDefault, Null),
                          required |-> Or(opt.valueRequired, False) ],
          required  |-> Or(opt.required, False),
          id        |-> Or(opt.id, Or(longCode, Or(shortCode, Null))) ]

\* Option.prototype.getCode
getCode(o) == Or(o.longCode, Or(o.shortCode, Null))

\* Option.prototype.getValue
getValue(o) == o.value.current

\* Option.prototype.valueIsRequired
valueIsRequired(o) == o.value.required

\* Option.prototype.getId
getId(o) ==
    LET id == Or(o.id, Or(o.longCode, Or(o.shortCode, Null)))
    IN  IF Truthy(id) THEN ToCamelCase(id) ELSE o.id

----------------------------------------------------------------------------
\* Registry

\* OptionParser.prototype.findOption: the index (1-based) of the first option
\* matching id by normalized id, raw longCode or raw shortCode; 0 for null
findOptionIn(opts, id) ==
    LET hit(k) == \/ getId(opts[k]) = id
                  \/ opts[k].longCode = id
                  \/ opts[k].shortCode = id
    IN  IF \E k \in 1..Len(opts) : hit(k)
        THEN CHOOSE k \in 1..Len(opts) : hit(k) /\ \A m \in 1..(k - 1) : ~hit(m)
        ELSE 0

\* addOne looking the raw id up instead of option.getId()
addOne_RawId(r, op) ==
    LET option == Option(op)
        found  == findOptionIn(r.options, option.id)
    IN  [ options |-> IF found = 0 THEN Append(r.options, option) ELSE r.options,
          option  |-> option,
          found   |-> found ]

\* The body shared by both branches of addOption, on the registry r.options:
\* create the option, look its normalized id up, push when nothing was found.
\* r.option and r.found are addOption's locals option and found.
addOne(r, op) ==
    LET option == Option(op)
        found  == findOptionIn(r.options, getId(option))
    IN  [ options |-> IF found = 0 THEN Append(r.options, option) ELSE r.options,
          option  |-> option,
          found   |-> found ]

\* optionParams.forEach(...) of addOption
RECURSIVE addEach(_, _)
addEach(r, ops) ==
    IF ops = <<>> THEN r
    ELSE addEach(addOne(r, Head(ops)), Tail(ops))

\* generateError without the default for a missing code (code || -1)
generateError_NoDefaultCode(msg) == [t |-> "error", msg |-> Or(msg, <<>>), code |-> 0]

\* OptionParser.generateError(msg): code is not passed, so code || -1 is -1
generateError(msg) == [t |-> "error", msg |-> Or(msg, <<>>), code |-> -1]

\* What the callback receives in its first parameter besides an error object
ErrNull == [t |-> "null", msg |-> <<>>, code |-> 0]
ErrTrue == [t |-> "true", msg |-> <<>>, code |-> 0]

\* One invocation callback(err, null) or callback(null, options)
Call(err, resultIsNull, result) ==
    [err |-> err, resultIsNull |-> resultIsNull, result |-> result]

\* The literal message suffixes of parse
NotFoundText      == <<" not found in options">>
RequiresValueText == <<" requires a value">>
OrText            == <<" -OR- ">>
IsRequiredText    == <<" is required">>

----------------------------------------------------------------------------
\* Inputs

\* The option specs callers register, after the schema of the rendering script
\* (url/html pair, output-base64-format with a default, help) plus specs with
\* an explicit id; a field the spec leaves out is undefined
Params(longCode, shortCode, id, type, valueRequired, valueDefault, required) ==
    [ longCode |-> longCode, shortCode |-> shortCode, id |-> id, type |-> type,
      valueRequired |-> valueRequired, valueDefault |-> valueDefault,
      required |-> required ]

P_a   == Params(<<"a">>, Undefined, Undefined, Undefined, True, Undefined, <<"b">>)
P_b   == Params(<<"b">>, <<"B">>, Undefined, Undefined, True, <<"p">>, <<"a">>)
P_of  == Params(<<"o", "-", "f">>, Undefined, Undefined, Undefined, True, <<"p">>, Undefined)
P_id  == Params(Undefined, <<"x">>, <<"o", "-", "f">>, Undefined, Undefined, Undefined, True)
P_h   == Params(<<"h">>, Null, Undefined, OptionType_help, Undefined, Undefined, Undefined)
P_dup == Params(<<"a">>, Undefined, <<"x">>, Undefined, Undefined, Undefined, Undefined)
P_d   == Params(<<"Z">>, Undefined, Undefined, Undefined, Undefined, False, <<"z", "z">>)

SpecPool == {P_a, P_b, P_of, P_id, P_h, P_dup, P_d}

\* The tokens of the argument list after the program name
TokenPool ==
    { <<"-", "-", "A">>,                          \* --A
      <<"-", "B">>,                               \* -B
      <<"-", "-", "a", "=", "v", "=", "w">>,      \* --a=v=w
      <<"-", "-", "a", "=">>,                     \* --a=
      <<"v">>,                                    \* v
      <<"-", "-", "z">>,                          \* --z
      <<"-", "-", "h">>,                          \* --h
      <<>> }                                      \* the empty token

ProgName == <<"p">>

\* Bounds of the model
MaxOptions    == 2   \* options of a schema that parse runs against
MaxArgs       == 2   \* tokens after the program name
MaxRegistered == 3   \* options of a registry built by addOption calls

SeqsUpTo(S, n) == UNION { [1..k -> S] : k \in 0..n }

\* system.args: the program name, then up to MaxArgs tokens
ArgLists == { <<ProgName>> \o t : t \in SeqsUpTo(TokenPool, MaxArgs) }

----------------------------------------------------------------------------
\* State

VARIABLES
    args,      \* this.args
    options,   \* this.options
    pc,        \* where the parser is: "idle" (constructed, parse not called
               \* yet), inside parse ("tokens": the for loop, "validate": the
               \* forEach over the options), "done" (parse returned),
               \* "threw" (parse raised an exception)
    i,         \* parse: the loop variable i (0-based, as in the code)
    argCode,   \* parse: the local argCode
    n,         \* parse: the index (0-based) of the forEach over the options
    calls,     \* the invocations of callback in the current parse call
    createdOption,  \* addOption: the local option, as the latest call left it
    createdFound,   \* addOption: the local found, as the latest call left it
                    \* (the index in options of the option found, 0 for null)
    returned   \* what the latest parse call that returned handed to
               \* callback(null, self.options)

vars == <<args, options, pc, i, argCode, n, calls, createdOption, createdFound,
          returned>>

\* No parse call has returned yet
NotReturned == [called |-> FALSE, options |-> <<>>]

\* this.args[k] (0-based); undefined past the end
ArgAt(k) == IF k < Len(args) THEN args[k + 1] ELSE Undefined

\* addOption(optionParams) with a single spec
AddOption(op) ==
    /\ pc = "idle"
    /\ Len(options) < MaxRegistered
    /\ LET r == addOne([options |-> options, option |-> createdOption,
                        found |-> createdFound], op)
       IN  /\ options' = r.options
           /\ createdOption' = r.option
           /\ createdFound' = r.found
    /\ UNCHANGED <<args, pc, i, argCode, n, calls, returned>>

\* addOption(optionParams) with an array of specs
AddOptions(ops) ==
    /\ pc = "idle"
    /\ Len(options) < MaxRegistered
    /\ LET r == addEach([options |-> options, option |-> createdOption,
                         found |-> createdFound], ops)
       IN  /\ Len(r.options) <= MaxRegistered
           /\ options' = r.options
           /\ createdOption' = r.option
           /\ createdFound' = r.found
    /\ UNCHANGED <<args, pc, i, argCode, n, calls, returned>>

----------------------------------------------------------------------------
\* parse

\* parse, the prefix test: "--" strips two characters and lower-cases, "-"
\* strips one, and a token with neither prefix leaves argCode as it was
classify(arg, prev) ==
    IF StartsWith(arg, <<"-", "-">>) THEN ToLowerCase(Slice(arg, 2))
    ELSE IF StartsWith(arg, <<"-">>) THEN Slice(arg, 1)
    ELSE prev

\* parse, "remove from code, if value passed as =": index = argCode.indexOf("=")
stripValue(code) ==
    LET index == IndexOf(code, "=")
    IN  IF index >= 1 THEN SliceTo(code, index) ELSE code

\* parse, the test that selects the inline-value branch
hasInlineValue(arg) == IndexOf(arg, "=") >= 1

\* parse, the inline value stored: arg.split("=")[1]
inlineValue(arg) == SplitEq1(arg)

\* parse, the test of the second branch: no next token, or one that looks like
\* a switch
noValueFollows(nextArg) == ~Truthy(nextArg) \/ StartsWith(nextArg, <<"-">>)

\* parse, the test guarding the "requires a value" error
missingValue(opt) == Truthy(valueIsRequired(opt)) /\ ~Truthy(getValue(opt))

\* resolvedCalls without the check of the option's type for help
resolvedCalls_NoHelp(opt, code, arg, nextArg) ==
    IF ~hasInlineValue(arg) /\ noValueFollows(nextArg) /\ missingValue(opt)
    THEN <<Call(generateError(code \o RequiresValueText), TRUE, <<>>)>>
    ELSE <<>>

\* parse, the callbacks of one loop iteration for a resolved option
resolvedCalls(opt, code, arg, nextArg) ==
    (IF opt.type = OptionType_help THEN <<Call(ErrTrue, TRUE, <<>>)>> ELSE <<>>)
    \o (IF ~hasInlineValue(arg) /\ noValueFollows(nextArg) /\ missingValue(opt)
        THEN <<Call(generateError(code \o RequiresValueText), TRUE, <<>>)>>
        ELSE <<>>)

\* resolvedValue switching a flag off when the option holds true already
resolvedValue_Toggle(arg, nextArg) ==
    IF hasInlineValue(arg) THEN inlineValue(arg)
    ELSE IF noValueFollows(nextArg)
         THEN IF getValue(options[findOptionIn(options,
                                     stripValue(classify(arg, argCode)))]) = True
              THEN False
              ELSE True
    ELSE nextArg

resolvedValue(arg, nextArg) ==
    IF hasInlineValue(arg) THEN inlineValue(arg)
    ELSE IF noValueFollows(nextArg) THEN True
    ELSE nextArg

\* resolvedAdvance without the i += 1 of the branch that takes the next token
resolvedAdvance_NoSkip(arg, nextArg) == 1

\* parse, how far one loop iteration moves i (the loop's i += 1 included)
resolvedAdvance(arg, nextArg) ==
    IF hasInlineValue(arg) \/ noValueFollows(nextArg) THEN 1 ELSE 2

\* parse, the callback of one loop iteration for an unresolved code
notFoundCalls(code) == <<Call(generateError(code \o NotFoundText), TRUE, <<>>)>>

\* The loop condition i < self.args.length decides what follows an iteration
AfterToken(k) == IF k < Len(args) THEN "tokens" ELSE "validate"

\* ParseStart clearing every value.current before the loop
ParseStart_Reset ==
    /\ pc \in {"idle", "done", "threw"}
    /\ pc' = AfterToken(1)
    /\ i' = 1
    /\ argCode' = Undefined
    /\ n' = 0
    /\ calls' = <<>>
    /\ options' = [k \in 1..Len(options) |-> [options[k] EXCEPT !.value.current = Null]]
    /\ UNCHANGED <<args, createdOption, createdFound, returned>>

\* parse is called: the locals are fresh, the loop starts at i = 1
ParseStart ==
    /\ pc \in {"idle", "done", "threw"}
    /\ pc' = AfterToken(1)
    /\ i' = 1
    /\ argCode' = Undefined
    /\ n' = 0
    /\ calls' = <<>>
    /\ UNCHANGED <<args, options, createdOption, createdFound, returned>>

\* One iteration of the for loop over the tokens
ParseToken ==
    /\ pc = "tokens"
    /\ LET arg     == ArgAt(i)
           code0   == classify(arg, argCode)
       IN  IF code0 = Undefined
           THEN \* argCode.indexOf on undefined: TypeError leaves parse
                /\ pc' = "threw"
                /\ UNCHANGED <<args, options, i, argCode, n, calls, createdOption, createdFound, returned>>
           ELSE LET code    == stripValue(code0)
                    opt     == findOptionIn(options, code)
                    nextArg == ArgAt(i + 1)
                IN  /\ argCode' = code
                    /\ IF opt # 0
                       THEN /\ calls' = calls \o resolvedCalls(options[opt], code, arg, nextArg)
                            /\ options' = [options EXCEPT ![opt].value.current =
                                                resolvedValue(arg, nextArg)]
                            /\ i' = i + resolvedAdvance(arg, nextArg)
                       ELSE /\ calls' = calls \o notFoundCalls(code)
                            /\ options' = options
                            /\ i' = i + 1
                    /\ pc' = AfterToken(i')
                    /\ UNCHANGED <<args, n, createdOption, createdFound, returned>>

\* requiredCalls testing the option's own value only, not its partner's
requiredCalls_OwnValueOnly(opts, k) ==
    LET option == opts[k]
    IN  IF Truthy(option.required) /\ option.required # True
        THEN LET found == findOptionIn(opts, option.required)
             IN  IF found # 0 /\ ~Truthy(getValue(option))
                 THEN <<Call(generateError(ToStr(getCode(option)) \o OrText
                                \o ToStr(getCode(opts[found])) \o IsRequiredText),
                             TRUE, <<>>)>>
                 ELSE <<>>
        ELSE IF Truthy(option.required) /\ ~Truthy(getValue(option))
             THEN <<Call(generateError(ToStr(getCode(option)) \o IsRequiredText), TRUE, <<>>)>>
             ELSE <<>>

\* parse, the error of the forEach body ("process required switches") for
\* the option at index k (1-based) of opts
requiredCalls(opts, k) ==
    LET option == opts[k]
    IN  IF Truthy(option.required) /\ option.required # True
        THEN LET found == findOptionIn(opts, option.required)
             IN  IF found # 0 /\ ~Truthy(getValue(option)) /\ ~Truthy(getValue(opts[found]))
                 THEN <<Call(generateError(ToStr(getCode(option)) \o OrText
                                \o ToStr(getCode(opts[found])) \o IsRequiredText),
                             TRUE, <<>>)>>
                 ELSE <<>>
        ELSE IF Truthy(option.required) /\ ~Truthy(getValue(option))
             THEN <<Call(generateError(ToStr(getCode(option)) \o IsRequiredText), TRUE, <<>>)>>
             ELSE <<>>

\* ParseRequired storing the declared default in an option left without value
ParseRequired_AppliesDefault ==
    /\ pc = "validate"
    /\ n < Len(options)
    /\ calls' = calls \o requiredCalls(options, n + 1)
    /\ n' = n + 1
    /\ options' = [options EXCEPT ![n + 1].value.current =
                        IF getValue(options[n + 1]) = Null
                        THEN options[n + 1].value.default
                        ELSE getValue(options[n + 1])]
    /\ UNCHANGED <<args, pc, i, argCode, createdOption, createdFound, returned>>

\* One iteration of self.options.forEach
ParseRequired ==
    /\ pc = "validate"
    /\ n < Len(options)
    /\ calls' = calls \o requiredCalls(options, n + 1)
    /\ n' = n + 1
    /\ UNCHANGED <<args, options, pc, i, argCode, createdOption, createdFound, returned>>

\* callback(null, self.options) and the return
ParseReturn ==
    /\ pc = "validate"
    /\ n >= Len(options)
    /\ calls' = Append(calls, Call(ErrNull, FALSE, options))
    /\ pc' = "done"
    /\ returned' = [called |-> TRUE, options |-> options]
    /\ UNCHANGED <<args, options, i, argCode, n, createdOption, createdFound>>

----------------------------------------------------------------------------
\* Specifications

\* new OptionParser(args): no options yet, parse not called
InitRegistry ==
    /\ args = <<ProgName>>
    /\ options = <<>>
    /\ pc = "idle"
    /\ i = 0
    /\ argCode = Undefined
    /\ n = 0
    /\ calls = <<>>
    /\ createdOption = Undefined
    /\ createdFound = 0
    /\ returned = NotReturned

NextRegistry ==
    \/ \E op \in SpecPool : AddOption(op)
    \/ \E op1 \in SpecPool : \E op2 \in SpecPool : AddOptions(<<op1, op2>>)

\* The registry under any sequence of addOption calls
SpecRegistry == InitRegistry /\ [][NextRegistry]_vars

\* The registries addOption builds from up to MaxOptions specs
Schemas ==
    { addEach([options |-> <<>>, option |-> Undefined, found |-> 0], ops).options :
        ops \in SeqsUpTo(SpecPool, MaxOptions) }

\* The parser as the rendering script sets it up before it calls parse:
\* new OptionParser(system.args), then the schema registered through addOption
\* (whose locals parse does not read)
Init ==
    /\ args \in ArgLists
    /\ options \in Schemas
    /\ pc = "idle"
    /\ i = 0
    /\ argCode = Undefined
    /\ n = 0
    /\ calls = <<>>
    /\ createdOption = Undefined
    /\ createdFound = 0
    /\ returned = NotReturned

Next ==
    \/ ParseStart
    \/ ParseToken
    \/ ParseRequired
    \/ ParseReturn

\* parse, called any number of times on the registered schema
Spec == Init /\ [][Next]_vars

----------------------------------------------------------------------------
\* Properties

IsErrorCall(c) == c.err.t = "error"

\* The message of a required-pair error naming the codes of x and y
PairMsg(x, y) == ToStr(getCode(x)) \o OrText \o ToStr(getCode(y)) \o IsRequiredText

\* Options p and q (indexes) name each other in their required fields
MutuallyRequired(p, q) ==
    /\ p # q
    /\ Truthy(options[p].required) /\ options[p].required # True
    /\ Truthy(options[q].required) /\ options[q].required # True
    /\ findOptionIn(options, options[p].required) = q
    /\ findOptionIn(options, options[q].required) = p

\* The calls of the current parse that carry a required-pair error naming
\* the codes of options p and q, in either order
PairErrorCalls(p, q) ==
    { k \in 1..Len(calls) :
        /\ IsErrorCall(calls[k])
        /\ calls[k].err.msg \in { PairMsg(options[p], options[q]),
                                  PairMsg(options[q], options[p]) } }

\* C1: when two options require each other and a parse ends with neither
\* holding a value, the callback has received exactly one required-pair
\* error naming both codes.
C1_ExactlyOnePairError ==
    pc = "done" =>
        \A p, q \in 1..Len(options) :
            ( /\ MutuallyRequired(p, q)
              /\ getValue(options[p]) = Null
              /\ getValue(options[q]) = Null )
            => Cardinality(PairErrorCalls(p, q)) = 1

\* The option at index k names, in a string-valued required field, an option
\* that is registered; Partner(k) is that option's index
NamesPartner(k) ==
    /\ Truthy(options[k].required)
    /\ options[k].required # True
    /\ findOptionIn(options, options[k].required) # 0

Partner(k) == findOptionIn(options, options[k].required)

\* The next step is the validation of the option at index n + 1
ValidatesNext == pc = "validate" /\ n < Len(options)

\* C2 as stated: validating an option that names a registered partner
\* reports nothing whenever one of the two holds a non-null value.
C2_NoPairErrorIfNonNull ==
    [][ ( /\ ValidatesNext
          /\ NamesPartner(n + 1)
          /\ \/ getValue(options[n + 1]) # Null
             \/ getValue(options[Partner(n + 1)]) # Null )
        => calls' = calls ]_vars

\* C2 as amended: validating an option that names a registered partner
\* reports nothing whenever one of the two holds a truthy value (true or a
\* non-empty string); an empty inline value counts as no value.
C2_NoPairErrorIfTruthy ==
    [][ ( /\ ValidatesNext
          /\ NamesPartner(n + 1)
          /\ \/ Truthy(getValue(options[n + 1]))
             \/ Truthy(getValue(options[Partner(n + 1)])) )
        => calls' = calls ]_vars

\* The option at index n has just been validated, it names a partner, it has
\* no value itself and the partner holds a string given by a token
C2_Witness ==
    /\ pc = "validate"
    /\ n >= 1
    /\ NamesPartner(n)
    /\ getValue(options[n]) = Null
    /\ getValue(options[Partner(n)]) \notin {Null, True, <<>>}

\* C3: the callback receives (null, options) only in a parse call that passed
\* it no error object.
C3_SuccessOnlyWithoutError ==
    \A k \in 1..Len(calls) :
        calls[k].err.t = "null" => \A m \in 1..Len(calls) : ~IsErrorCall(calls[m])

\* C4: parse never raises an exception, whatever the tokens and the schema.
C4_ParseNeverThrows == pc # "threw"

\* The token the next loop iteration processes, and the one after it
CurArg  == ArgAt(i)
NextArg == ArgAt(i + 1)

\* The next step is a loop iteration over a token that is a switch
SwitchStep == pc = "tokens" /\ StartsWith(CurArg, <<"-">>)

\* The grammar of a switch token: the text after the prefix (lower-cased for
\* the long form), and its code, which ends before an "=" at position >= 1
SwitchBody(arg) ==
    IF StartsWith(arg, <<"-", "-">>) THEN ToLowerCase(Slice(arg, 2)) ELSE Slice(arg, 1)

SwitchCode(arg) ==
    LET eq == IndexOf(SwitchBody(arg), "=")
    IN  IF eq >= 1 THEN SubSeq(SwitchBody(arg), 1, eq) ELSE SwitchBody(arg)

HasInline(arg) == IndexOf(SwitchBody(arg), "=") >= 1

\* Every character of the token after its first "="
AfterFirstEq(arg) == SubSeq(arg, IndexOf(arg, "=") + 2, Len(arg))

\* The index of the first registered option that code resolves to, 0 if none
Resolved(code) ==
    LET match(k) == \/ getId(options[k]) = code
                    \/ options[k].longCode = code
                    \/ options[k].shortCode = code
    IN  IF \E k \in 1..Len(options) : match(k)
        THEN CHOOSE k \in 1..Len(options) : match(k) /\ \A m \in 1..(k - 1) : ~match(m)
        ELSE 0

\* A step reports "<code> requires a value"
IsRequiresValueCall(c) ==
    IsErrorCall(c) /\ c.err.msg[Len(c.err.msg)] = RequiresValueText[1]

ReportsRequiresValue ==
    \E k \in (Len(calls) + 1)..Len(calls') : IsRequiresValueCall(calls'[k])

\* C5: a loop iteration that reports "requires a value" for an option does
\* not set that option's value.current to true.
C5_ErrorOrTrueNotBoth ==
    [][ (pc = "tokens" /\ pc' # "threw" /\ ReportsRequiresValue)
        => LET opt == Resolved(argCode')
           IN  opt # 0 => options'[opt].value.current # True ]_vars

\* C6: a loop iteration reports "requires a value" exactly when its token is
\* a switch resolving to a value-required option, without inline value, with
\* no following token or a following switch, and the option has neither a
\* prior value nor a default.
C6_RequiresValueExactlyWhen ==
    [][ (pc = "tokens" /\ pc' # "threw")
        => ( ReportsRequiresValue
             <=> /\ StartsWith(CurArg, <<"-">>)
                 /\ Resolved(SwitchCode(CurArg)) # 0
                 /\ ~HasInline(CurArg)
                 /\ (NextArg = Undefined \/ StartsWith(NextArg, <<"-">>))
                 /\ LET o == options[Resolved(SwitchCode(CurArg))]
                    IN  /\ o.value.required = True
                        /\ o.value.current = Null
                        /\ o.value.default = Null ) ]_vars

\* C7: a switch token with an inline value whose code resolves to an option
\* sets that option's value.current to everything after the token's first
\* "=" and moves the cursor by one token only.
C7_WholeInlineValue ==
    [][ (SwitchStep /\ HasInline(CurArg) /\ Resolved(SwitchCode(CurArg)) # 0)
        => /\ options'[Resolved(SwitchCode(CurArg))].value.current = AfterFirstEq(CurArg)
           /\ i' = i + 1 ]_vars

\* C8: a switch token whose code resolves to no registered option causes
\* exactly one callback({msg: "<code> not found in options", code: -1}, null),
\* changes no option and lets the loop go on with the next token.
C8_UnknownSwitchOneError ==
    [][ (SwitchStep /\ Resolved(SwitchCode(CurArg)) = 0)
        => /\ calls' = Append(calls,
                          [ err |-> [ t |-> "error",
                                      msg |-> SwitchCode(CurArg) \o NotFoundText,
                                      code |-> -1 ],
                            resultIsNull |-> TRUE,
                            result |-> <<>> ])
           /\ options' = options
           /\ i' = i + 1
           /\ pc' = IF i + 1 < Len(args) THEN "tokens" ELSE "validate" ]_vars

\* An unknown switch has just been reported and a further token is waiting
C8_Witness ==
    /\ pc = "tokens"
    /\ i >= 2
    /\ StartsWith(ArgAt(i - 1), <<"-">>)
    /\ Resolved(SwitchCode(ArgAt(i - 1))) = 0
    /\ Len(calls) >= 1
    /\ calls[Len(calls)].err.msg = SwitchCode(ArgAt(i - 1)) \o NotFoundText

\* C9: every registered option is found under its raw id (explicit id, else
\* longCode, else shortCode), and what findOption returns for it has the
\* camelCase normalization of that id as its getId().
C9_FindByRawId ==
    \A k \in 1..Len(options) :
        Truthy(options[k].id)
        => LET f == findOptionIn(options, options[k].id)
           IN  f # 0 /\ getId(options[f]) = ToCamelCase(options[k].id)

\* No two options of opts have the same normalized id
UniqueIds(opts) ==
    \A p, q \in 1..Len(opts) : p # q => getId(opts[p]) # getId(opts[q])

\* C10: every addOption call leaves a registry without two options of the
\* same normalized id, keeps the options registered before it in place, and
\* does not push a spec whose normalized id was registered before the call.
C10_FirstRegistrationKept ==
    [][ /\ UniqueIds(options')
        /\ Len(options') >= Len(options)
        /\ SubSeq(options', 1, Len(options)) = options
        /\ (\E k \in 1..Len(options) : getId(options[k]) = getId(createdOption'))
              => /\ createdFound' # 0
                 /\ \A k \in (Len(options) + 1)..Len(options') :
                        options'[k] # createdOption' ]_vars

\* The latest addOption call created an option whose normalized id belongs to
\* a different option registered earlier, and did not push it
C10_Witness ==
    /\ createdFound # 0
    /\ getId(options[createdFound]) = getId(createdOption)
    /\ options[createdFound] # createdOption
    /\ \A k \in 1..Len(options) : options[k] # createdOption

\* C11: no two registered options have the same longCode and no two have the
\* same shortCode; a spec whose code is registered already is dropped.
C11_UniqueCodes ==
    \A p, q \in 1..Len(options) :
        p # q => /\ Truthy(options[p].longCode)
                    => options[p].longCode # options[q].longCode
                 /\ Truthy(options[p].shortCode)
                    => options[p].shortCode # options[q].shortCode

\* The option at index k is named by a switch token of the command line
NamedByToken(k) ==
    \E j \in 1..(Len(args) - 1) :
        StartsWith(ArgAt(j), <<"-">>) /\ Resolved(SwitchCode(ArgAt(j))) = k

\* C12: when parse has returned, getValue() of an option that declares a
\* default is the declared default if no token named the option, and is a
\* value given on the command line, never null, if one did.
C12_DefaultWhenNotNamed ==
    pc = "done"
    => \A k \in 1..Len(options) :
           options[k].value.default # Null
           => IF NamedByToken(k)
              THEN getValue(options[k]) # Null
              ELSE getValue(options[k]) = options[k].value.default

\* C14: a long switch resolves to the option whose longCode equals its code
\* up to the case of the letters, whatever the case of either; a short switch
\* resolves to the option whose shortCode is its code, case preserved.
C14_LongCodeAnyCase ==
    [][ /\ \A k \in 1..Len(options) :
              ( /\ pc = "tokens"
                /\ StartsWith(CurArg, <<"-", "-">>)
                /\ Truthy(options[k].longCode)
                /\ ToLowerCase(options[k].longCode) = SwitchCode(CurArg) )
              => /\ Resolved(argCode') # 0
                 /\ ToLowerCase(options[Resolved(argCode')].longCode)
                        = SwitchCode(CurArg)
        /\ \A k \in 1..Len(options) :
              ( /\ SwitchStep
                /\ ~StartsWith(CurArg, <<"-", "-">>)
                /\ Truthy(options[k].shortCode)
                /\ options[k].shortCode = SwitchCode(CurArg) )
              => /\ argCode' = SwitchCode(CurArg)
                 /\ Resolved(argCode') # 0 ]_vars

\* The option at index k names, in a string-valued required field, an option
\* that is not registered
NamesMissingPartner(k) ==
    /\ Truthy(options[k].required)
    /\ options[k].required # True
    /\ findOptionIn(options, options[k].required) = 0

\* C15: parse does not return without an error when an option without value
\* names, in a string-valued required field, an option that is not registered.
C15_DanglingRequiredReported ==
    pc = "done"
    => \A k \in 1..Len(options) :
           (NamesMissingPartner(k) /\ ~Truthy(getValue(options[k])))
           => \E m \in 1..Len(calls) : IsErrorCall(calls[m])

\* C16: addOption finds a registered option in the way of the created one,
\* and so skips it, only when the two have the same normalized id.
C16_SkippedOnlyOnSameId ==
    createdFound # 0 => getId(options[createdFound]) = getId(createdOption)

\* C20: a loop iteration over a token that starts with neither "--" nor "-"
\* changes no value.current and invokes no callback.
C20_PlainTokenIgnored ==
    [][ (pc = "tokens" /\ ~StartsWith(CurArg, <<"-">>))
        => /\ options' = options
           /\ calls' = calls ]_vars

\* A token follows the one being processed and does not look like a switch
FollowingValue == NextArg # Undefined /\ ~StartsWith(NextArg, <<"-">>)

\* The next step is a loop iteration over a switch that resolves to an option
\* and carries no inline value
BareSwitchStep ==
    SwitchStep /\ Resolved(SwitchCode(CurArg)) # 0 /\ ~HasInline(CurArg)

\* C13 as stated: a resolved switch without inline value takes the following
\* token as its value.current, and moves the cursor past it, exactly when a
\* following token exists and does not start with "-"; otherwise the cursor
\* moves to the following token.
C13_ConsumesIffFollowing ==
    [][ BareSwitchStep
        => IF FollowingValue
           THEN /\ i' = i + 2
                /\ options'[Resolved(SwitchCode(CurArg))].value.current = NextArg
           ELSE i' = i + 1 ]_vars

\* C13 as amended: a resolved switch without inline value takes the following
\* token as its value.current, and moves the cursor past it, exactly when a
\* following token exists, is not the empty string and does not start with
\* "-"; otherwise the cursor moves to the following token.
C13_ConsumesIffNonEmptyFollowing ==
    [][ BareSwitchStep
        => IF FollowingValue /\ NextArg # <<>>
           THEN /\ i' = i + 2
                /\ options'[Resolved(SwitchCode(CurArg))].value.current = NextArg
           ELSE i' = i + 1 ]_vars

\* The loop has just passed a resolved switch without inline value together
\* with the token after it, which is now the value of the switch's option
C13_Witness ==
    /\ pc \in {"tokens", "validate"}
    /\ n = 0
    /\ i >= 3
    /\ StartsWith(ArgAt(i - 2), <<"-">>)
    /\ ~HasInline(ArgAt(i - 2))
    /\ Resolved(SwitchCode(ArgAt(i - 2))) # 0
    /\ ArgAt(i - 1) # <<>>
    /\ ~StartsWith(ArgAt(i - 1), <<"-">>)
    /\ options[Resolved(SwitchCode(ArgAt(i - 2)))].value.current = ArgAt(i - 1)

\* The callbacks of the token loop and those of the validation pass
IsTokenCall(c) ==
    \/ c.err.t = "true"
    \/ IsErrorCall(c) /\ c.err.msg[Len(c.err.msg)] \in {NotFoundText[1], RequiresValueText[1]}

IsValidationCall(c) ==
    IsErrorCall(c) /\ c.err.msg[Len(c.err.msg)] = IsRequiredText[1]

IsPrefix(s, t) == Len(s) <= Len(t) /\ SubSeq(t, 1, Len(s)) = s

\* C17: a loop iteration moves the cursor forward and appends callbacks about
\* its own token only; once validation has begun no token is processed and no
\* value.current is written, each validation step appends errors about the
\* next option in registration order only, and no callback of the token loop
\* comes after one of the validation pass.
C17_TokensThenValidationInOrder ==
    [][ /\ (pc = "tokens" /\ pc' # "threw")
           => /\ i' > i
              /\ n' = 0
              /\ IsPrefix(calls, calls')
              /\ \A k \in (Len(calls) + 1)..Len(calls') :
                    /\ IsTokenCall(calls'[k])
                    /\ (IsErrorCall(calls'[k]) /\ StartsWith(CurArg, <<"-">>))
                       => SubSeq(calls'[k].err.msg, 1, Len(calls'[k].err.msg) - 1)
                              = SwitchCode(CurArg)
        /\ pc = "validate"
           => /\ options' = options
              /\ i' = i
              /\ pc' \in {"validate", "done"}
              /\ IsPrefix(calls, calls')
              /\ \A k \in (Len(calls) + 1)..Len(calls') :
                    IF pc' = "done"
                    THEN calls'[k].err.t = "null" /\ n = Len(options)
                    ELSE /\ IsValidationCall(calls'[k])
                         /\ n' = n + 1
                         /\ IsPrefix(ToStr(getCode(options[n + 1])), calls'[k].err.msg)
        /\ \A k, m \in 1..Len(calls') :
              k < m => ~(IsValidationCall(calls'[k]) /\ IsTokenCall(calls'[m])) ]_vars

\* parse has returned after an error of the token loop followed by the
\* validation errors of two options
C17_Witness ==
    /\ pc = "done"
    /\ \E k, m, l \in 1..Len(calls) :
          /\ k < m /\ m < l
          /\ IsTokenCall(calls[k])
          /\ IsValidationCall(calls[m])
          /\ IsValidationCall(calls[l])

\* C18: a loop iteration over a switch that resolves to a help option invokes
\* callback(true, null) first of all, while the validation pass has not
\* begun, whatever was reported before.
C18_HelpCallbackAtOnce ==
    [][ ( /\ SwitchStep
          /\ Resolved(SwitchCode(CurArg)) # 0
          /\ options[Resolved(SwitchCode(CurArg))].type = OptionType_help )
        => /\ n = 0
           /\ Len(calls') > Len(calls)
           /\ SubSeq(calls', 1, Len(calls)) = calls
           /\ calls'[Len(calls) + 1]
                  = [ err |-> [t |-> "true", msg |-> <<>>, code |-> 0],
                      resultIsNull |-> TRUE,
                      result |-> <<>> ] ]_vars

\* callback(true, null) has been invoked after an error was reported
C18_Witness ==
    \E k \in 2..Len(calls) : calls[k].err.t = "true" /\ IsErrorCall(calls[1])

\* C19: no step of parse changes the number or the order of the options or
\* any field of an option other than value.current; value.current changes
\* only in a loop iteration, and only for the option its code resolves to;
\* the start of parse changes no option.
C19_OnlyResolvedValueWritten ==
    [][ /\ Len(options') = Len(options)
        /\ \A k \in 1..Len(options) :
              /\ options'[k] = [options[k] EXCEPT !.value.current =
                                    options'[k].value.current]
              /\ options'[k].value.current # options[k].value.current
                 => pc = "tokens" /\ k = Resolved(argCode')
        /\ pc \in {"idle", "done", "threw"} => options' = options ]_vars

\* A parse call has started, none of its tokens is processed yet, and an
\* option holds the value an earlier parse call gave it
C19_Witness ==
    /\ pc = "tokens"
    /\ i = 1
    /\ calls = <<>>
    /\ \E k \in 1..Len(options) : options[k].value.current # Null

\* C21: a parse call that returns after an earlier call on the same parser
\* returned leaves every option, and so every value.current, as the earlier
\* call left it.
C21_SecondParseSameValues ==
    [][ (pc = "validate" /\ pc' = "done" /\ returned.called)
        => /\ Len(options') = Len(returned.options)
           /\ \A k \in 1..Len(options') :
                 options'[k].value.current = returned.options[k].value.current ]_vars

\* A second parse call is about to return: an earlier call returned, this
\* one has processed a switch that resolved to an option and has validated
\* every option
C21_Witness ==
    /\ pc = "validate"
    /\ n = Len(options)
    /\ returned.called
    /\ i >= 2
    /\ StartsWith(ArgAt(1), <<"-">>)
    /\ Resolved(SwitchCode(ArgAt(1))) # 0
    /\ options[Resolved(SwitchCode(ArgAt(1)))].value.current # Null

====
